---- MODULE Spec2Model ----
(***************************************************************************)
(* A model of the Steam-Version-Updater command line tool:                 *)
(*   steam-search.js      SteamSearchApp.start, the interactive flow       *)
(*   lib/index.js         SteamClient (login, logout, getGameDepots,       *)
(*                        getOsType, getDepotManifests)                    *)
(*   lib/SteamSearch.js   SteamSearch.searchGames                          *)
(*   unnamed/part_000     CLI (prompts, command formatting, side effects)  *)
(*                                                                         *)
(* One action is one turn of the Node event loop: the callback of an       *)
(* external completion together with everything start() does until its     *)
(* next await.  `log` is a history variable: the externally visible events *)
(* in the order the program produces them.                                 *)
(*                                                                         *)
(* JavaScript values: an absent / undefined / null property is the empty   *)
(* tuple <<>>, a present one is the one-element tuple <<v>>.               *)
(***************************************************************************)
EXTENDS Integers, Sequences, FiniteSets, TLC

VARIABLES
    pc,               \* position of start(): the await it is suspended at
    log,              \* history: events in program order
    exited,           \* the process has terminated
    exitCode,         \* its exit code (meaningful once exited)
    errorCaught,      \* the catch block of start() was entered
    listeners,        \* once-listeners registered on the SteamUser client
    loginPromise,     \* state of the promise returned by login()
    invalidCount,     \* blank inputs refused by the prompt's validate so far
    searchTerm,       \* start(): const searchTerm
    games,            \* start(): const games
    selectedGame,     \* start(): const selectedGame (<<>> before selection)
    productInfo,      \* the value the last getProductInfo callback delivered
    depots,           \* start(): const depots
    selectedDepot,    \* start(): const selectedDepot (<<>> is null)
    manifests,        \* start(): const manifests
    selectedManifest, \* start(): const selectedManifest (<<>> is null)
    current,          \* CLI.currentAppId / currentDepotId / currentManifestId
    shown,            \* command strings printed, in order
    pendingExec,      \* child process whose callback is outstanding
    clipboardSuccess, \* argument handed to openSteamConsole
    now               \* Math.floor(Date.now() / 1000)

vars == <<pc, log, exited, exitCode, errorCaught, listeners, loginPromise,
          invalidCount, searchTerm, games, selectedGame, productInfo, depots,
          selectedDepot, manifests, selectedManifest, current, shown,
          pendingExec, clipboardSuccess, now>>

(***************************************************************************)
(* Bounds of the model.                                                    *)
(***************************************************************************)
MaxTermLen == 1
MaxInvalid == 1
MaxItems == 1

None == <<>>
Some(x) == <<x>>
IsSome(o) == Len(o) = 1
Val(o) == o[1]

(***************************************************************************)
(* String.prototype.trim on a term, a sequence of characters.              *)
(***************************************************************************)
TermChars == {" ", "a"}
IsSpace(c) == c = " "

RECURSIVE TrimStart(_)
TrimStart(s) ==
    IF s = <<>> THEN <<>>
    ELSE IF IsSpace(Head(s)) THEN TrimStart(Tail(s)) ELSE s

RECURSIVE TrimEnd(_)
TrimEnd(s) ==
    IF s = <<>> THEN <<>>
    ELSE IF IsSpace(s[Len(s)]) THEN TrimEnd(SubSeq(s, 1, Len(s) - 1)) ELSE s

Trim(s) == TrimEnd(TrimStart(s))

SeqsUpTo(S, n) == UNION {[1..k -> S] : k \in 0..n}

Terms == SeqsUpTo(TermChars, MaxTermLen)

(***************************************************************************)
(* Strings are sequences of characters.  Literals of the source.           *)
(***************************************************************************)
sBranches == <<"b", "r", "a", "n", "c", "h", "e", "s">>
sWindows == <<"w", "i", "n", "d", "o", "w", "s">>
sMacos == <<"m", "a", "c", "o", "s">>
sMac == <<"m", "a", "c">>
sOsx == <<"o", "s", "x">>
sLinux == <<"l", "i", "n", "u", "x">>

ToLowerChar(c) ==
    CASE c = "L" -> "l"
      [] c = "M" -> "m"
      [] c = "W" -> "w"
      [] c = "O" -> "o"
      [] c = "S" -> "s"
      [] c = "X" -> "x"
      [] OTHER -> c

ToLowerCase(s) == [i \in 1..Len(s) |-> ToLowerChar(s[i])]

\* String.prototype.includes
Includes(s, needle) ==
    \E i \in 1..(Len(s) - Len(needle) + 1) :
        SubSeq(s, i, i + Len(needle) - 1) = needle

(***************************************************************************)
(* parseInt(key), radix 10: leading white space, an optional sign, then    *)
(* the longest prefix of digits; <<>> is NaN.                              *)
(***************************************************************************)
Digits == {"0", "1", "2", "3", "4", "5", "6", "7", "8", "9"}

DigitVal(c) ==
    CASE c = "0" -> 0 [] c = "1" -> 1 [] c = "2" -> 2 [] c = "3" -> 3
      [] c = "4" -> 4 [] c = "5" -> 5 [] c = "6" -> 6 [] c = "7" -> 7
      [] c = "8" -> 8 [] c = "9" -> 9

RECURSIVE DigitPrefix(_)
DigitPrefix(s) ==
    IF s = <<>> \/ Head(s) \notin Digits THEN <<>>
    ELSE <<Head(s)>> \o DigitPrefix(Tail(s))

RECURSIVE DigitsValue(_)
DigitsValue(ds) ==
    IF ds = <<>> THEN 0
    ELSE 10 * DigitsValue(SubSeq(ds, 1, Len(ds) - 1)) + DigitVal(ds[Len(ds)])

ParseInt(str) ==
    LET t == TrimStart(str)
        signed == t # <<>> /\ Head(t) \in {"-", "+"}
        body == IF signed THEN Tail(t) ELSE t
        ds == DigitPrefix(body)
    IN  IF ds = <<>> THEN None
        ELSE Some(IF signed /\ Head(t) = "-" THEN 0 - DigitsValue(ds)
                  ELSE DigitsValue(ds))

IsNaNParseInt(str) == ParseInt(str) = None

(***************************************************************************)
(* Values: a number n is [num |-> n], a string s is [str |-> s], a         *)
(* template literal is [tpl |-> prefix, arg |-> value].                    *)
(***************************************************************************)
NumV(n) == [num |-> n]
StrV(s) == [str |-> s]
Tpl(prefix, arg) == [tpl |-> prefix, arg |-> arg]
IsNum(v) == DOMAIN v = {"num"}
OsUnknown == [os |-> "Unknown"]
OsNamed(n) == [os |-> n]
OsRaw(s) == [raw |-> s]

(***************************************************************************)
(* SteamClient.getOsType(depot), for a depot object (not null).  The       *)
(* oslist field is a string [str |-> chars] or an array of strings         *)
(* [list |-> <<s1, ...>>]: an empty string is falsy, an empty array is not; *)
(* includes() is a substring test on the one, membership on the other.     *)
(***************************************************************************)
ListV(l) == [list |-> l]
IsList(v) == "list" \in DOMAIN v
OsListTruthy(v) == IsList(v) \/ v.str # <<>>
OsListIncludes(v, needle) ==
    IF IsList(v) THEN \E i \in 1..Len(v.list) : v.list[i] = needle
    ELSE Includes(v.str, needle)

\* variant: the display name is consulted before the OS list
GetOsTypeNameFirst(depot) ==
    LET oslist == IF IsSome(depot.config) THEN Val(depot.config).oslist
                  ELSE None
        name == IF IsSome(depot.name) THEN ToLowerCase(Val(depot.name))
                ELSE <<>>
    IN  IF Includes(name, sWindows) THEN OsNamed("Windows")
        ELSE IF Includes(name, sMac) \/ Includes(name, sOsx)
             THEN OsNamed("Mac")
        ELSE IF Includes(name, sLinux) THEN OsNamed("Linux")
        ELSE IF IsSome(oslist) /\ OsListTruthy(Val(oslist))
        THEN IF OsListIncludes(Val(oslist), sWindows) THEN OsNamed("Windows")
             ELSE IF OsListIncludes(Val(oslist), sMacos) THEN OsNamed("Mac")
             ELSE IF OsListIncludes(Val(oslist), sLinux) THEN OsNamed("Linux")
             ELSE OsRaw(Val(oslist))
        ELSE OsUnknown

GetOsType(depot) ==
    LET oslist == IF IsSome(depot.config) THEN Val(depot.config).oslist
                  ELSE None
        name == IF IsSome(depot.name) THEN ToLowerCase(Val(depot.name))
                ELSE <<>>
    IN  IF IsSome(oslist) /\ OsListTruthy(Val(oslist))
        THEN IF OsListIncludes(Val(oslist), sWindows) THEN OsNamed("Windows")
             ELSE IF OsListIncludes(Val(oslist), sMacos) THEN OsNamed("Mac")
             ELSE IF OsListIncludes(Val(oslist), sLinux) THEN OsNamed("Linux")
             ELSE OsRaw(Val(oslist))
        ELSE IF IsSome(depot.name) /\ Val(depot.name) # <<>>
        THEN IF Includes(name, sWindows) THEN OsNamed("Windows")
             ELSE IF Includes(name, sMac) \/ Includes(name, sOsx)
                  THEN OsNamed("Mac")
             ELSE IF Includes(name, sLinux) THEN OsNamed("Linux")
             ELSE OsUnknown
        ELSE OsUnknown

(***************************************************************************)
(* The value getProductInfo's callback delivers for one app id:            *)
(*   [kind |-> "error"]                    err is set                      *)
(*   [kind |-> "entry", entry |-> <<>>]    apps[appId] is undefined        *)
(*   [kind |-> "entry", entry |-> <<e>>]   e = [appinfo |-> <<>> or <<a>>] *)
(*   a = [commonName |-> opt string, depots |-> <<>> or <<table>>]         *)
(*   table = [entries |-> sequence of [key, val], branches |-> opt seq]    *)
(* val is <<>> (null) or <<depot object>>; entries are in own-key order.   *)
(***************************************************************************)
SyntheticDepot(appId, name) ==
    [id |-> NumV(appId), name |-> name, osType |-> OsUnknown]

DepotRecord(depotId, depot) ==
    [id |-> StrV(depotId),
     name |-> IF IsSome(depot.name) /\ Val(depot.name) # <<>>
              THEN StrV(Val(depot.name)) ELSE Tpl("Depot ", StrV(depotId)),
     osType |-> GetOsType(depot),
     maxSize |-> IF IsSome(depot.maxsize) /\ Val(depot.maxsize) # 0
                 THEN depot.maxsize ELSE None,
     language |-> IF IsSome(depot.config) /\ IsSome(Val(depot.config).language)
                     /\ Val(Val(depot.config).language) # <<>>
                  THEN Val(depot.config).language ELSE None]

NoProductInfo(info) ==
    info.entry = None \/ Val(info.entry).appinfo = None

\* variant: the catch block gives up instead of falling back
ErrorFallbackEmpty(appId) == <<>>

\* the catch block of getGameDepots: the app itself as a depot
ErrorFallback(appId) == <<SyntheticDepot(appId, Tpl("App ", NumV(appId)))>>

\* variant: only the reserved key is skipped
DepotKeyQualifiesNoNaNCheck(depotId) == depotId # sBranches

\* for (const depotId in depotData): the keys the loop does not skip
DepotKeyQualifies(depotId) ==
    ~(depotId = sBranches \/ IsNaNParseInt(depotId))

GetGameDepots(info, appId) ==
    IF info.kind = "error" THEN ErrorFallback(appId)
    ELSE IF NoProductInfo(info) THEN <<>>
    ELSE LET appinfo == Val(Val(info.entry).appinfo)
             entries == IF IsSome(appinfo.depots)
                        THEN Val(appinfo.depots).entries ELSE <<>>
             kept == SelectSeq(entries, LAMBDA e : DepotKeyQualifies(e.key))
             listed == [i \in 1..Len(kept) |->
                           DepotRecord(kept[i].key, Val(kept[i].val))]
         IN  IF \E i \in 1..Len(kept) : kept[i].val = None
             THEN \* depot.name on null throws inside the try block
                  ErrorFallback(appId)
             ELSE IF Len(kept) = 0
             THEN <<SyntheticDepot(appId,
                       IF IsSome(appinfo.commonName)
                          /\ Val(appinfo.commonName) # <<>>
                       THEN StrV(Val(appinfo.commonName))
                       ELSE Tpl("App ", NumV(appId)))>>
             ELSE listed

(***************************************************************************)
(* String(n) for a non-negative integer: the property key a number is      *)
(* converted to in depotData[depotId] and branch.depots[depotId].          *)
(***************************************************************************)
DigitChar(d) ==
    CASE d = 0 -> "0" [] d = 1 -> "1" [] d = 2 -> "2" [] d = 3 -> "3"
      [] d = 4 -> "4" [] d = 5 -> "5" [] d = 6 -> "6" [] d = 7 -> "7"
      [] d = 8 -> "8" [] d = 9 -> "9"

RECURSIVE NumToString(_)
NumToString(n) ==
    IF n < 10 THEN <<DigitChar(n)>>
    ELSE NumToString(n \div 10) \o <<DigitChar(n % 10)>>

PropertyKey(id) == IF IsNum(id) THEN NumToString(id.num) ELSE id.str

\* obj[key] on a sequence of [key, val] entries: <<>> when absent
Lookup(entries, key) ==
    IF \E i \in 1..Len(entries) : entries[i].key = key
    THEN LET i == CHOOSE j \in 1..Len(entries) : entries[j].key = key
         IN  Some(entries[i].val)
    ELSE None

(***************************************************************************)
(* Array.prototype.sort as Node's engine runs it on arrays shorter than 64 *)
(* elements: the first run is counted (and reversed when descending), the  *)
(* rest is inserted by binary insertion.  The comparator is called exactly *)
(* as the engine calls it, so an inconsistent comparator yields the order  *)
(* the program really produces.                                            *)
(***************************************************************************)
Truthy(ts) == IsSome(ts) /\ Val(ts) # 0

ManifestCompare(a, b) ==
    IF Truthy(a.timeupdated) /\ Truthy(b.timeupdated)
    THEN Val(b.timeupdated) - Val(a.timeupdated)
    ELSE IF a.isHistorical /\ ~b.isHistorical THEN 1
    ELSE IF ~a.isHistorical /\ b.isHistorical THEN 0 - 1
    ELSE 0

Reverse(s) == [i \in 1..Len(s) |-> s[Len(s) + 1 - i]]

\* length of the run starting at arr[1]; idx is the next element to look at
RECURSIVE RunLength(_, _, _)
RunLength(arr, isDescending, idx) ==
    IF idx > Len(arr) THEN idx - 1
    ELSE LET order == ManifestCompare(arr[idx], arr[idx - 1])
         IN  IF (isDescending /\ order >= 0) \/ (~isDescending /\ order < 0)
             THEN idx - 1
             ELSE RunLength(arr, isDescending, idx + 1)

\* position in arr[left+1 .. right] (0-based left, right) for pivot
RECURSIVE InsertionPoint(_, _, _, _)
InsertionPoint(arr, pivot, left, right) ==
    IF left >= right THEN left
    ELSE LET mid == left + ((right - left) \div 2)
         IN  IF ManifestCompare(pivot, arr[mid + 1]) < 0
             THEN InsertionPoint(arr, pivot, left, mid)
             ELSE InsertionPoint(arr, pivot, mid + 1, right)

\* arr[1..start-1] is sorted; insert arr[start], arr[start+1], ...
RECURSIVE BinaryInsertionSort(_, _)
BinaryInsertionSort(arr, start) ==
    IF start > Len(arr) THEN arr
    ELSE LET pivot == arr[start]
             left == InsertionPoint(arr, pivot, 0, start - 1)
             moved == SubSeq(arr, 1, left) \o <<pivot>>
                        \o SubSeq(arr, left + 1, start - 1)
                        \o SubSeq(arr, start + 1, Len(arr))
         IN  BinaryInsertionSort(moved, start + 1)

SortManifests(arr) ==
    IF Len(arr) < 2 THEN arr
    ELSE LET isDescending == ManifestCompare(arr[2], arr[1]) < 0
             run == RunLength(arr, isDescending, 3)
             made == IF isDescending
                     THEN Reverse(SubSeq(arr, 1, run))
                            \o SubSeq(arr, run + 1, Len(arr))
                     ELSE arr
         IN  BinaryInsertionSort(made, run + 1)

(***************************************************************************)
(* SteamClient.getDepotManifests.                                          *)
(*   depot object: manifests |-> <<>> or <<sequence of [key, val]>>, val   *)
(*     <<>> (null) or <<[buildid, date]>>                                  *)
(*   table.branches: <<>> or <<sequence of [key, val]>>, val <<>> (null)   *)
(*     or <<[buildid, depots, description, public, timeupdated]>>          *)
(***************************************************************************)
Day == 24 * 60 * 60
Hour == 3600
Id(token) == StrV(<<token>>)

HistoricalSamples(t) ==
    << [manifestId |-> Id("2946550127499212992"),
        timeupdated |-> t - 2 * Day, buildId |-> Id("Recent")],
       [manifestId |-> Id("4931450830400310210"),
        timeupdated |-> t - 2 * Day - Hour, buildId |-> Id("Recent")],
       [manifestId |-> Id("9512939615798864588"),
        timeupdated |-> t - 10 * Day, buildId |-> Id("Older")],
       [manifestId |-> Id("2488226670458163874"),
        timeupdated |-> t - 15 * Day, buildId |-> Id("Older")],
       [manifestId |-> Id("8387145243060614243"),
        timeupdated |-> t - 16 * Day, buildId |-> Id("Older")] >>

HistoricalManifests(t) ==
    [i \in 1..Len(HistoricalSamples(t)) |->
        [manifestId |-> HistoricalSamples(t)[i].manifestId,
         buildId |-> HistoricalSamples(t)[i].buildId,
         branch |-> Id("historical"),
         description |-> Id("Previously seen manifest"),
         timeupdated |-> Some(HistoricalSamples(t)[i].timeupdated),
         isPublic |-> TRUE,
         isHistorical |-> TRUE]]

OrNull(o) == IF Truthy(o) THEN o ELSE None

DirectManifest(e) ==
    [manifestId |-> StrV(e.key),
     buildId |-> IF IsSome(Val(e.val).buildid) THEN Val(Val(e.val).buildid)
                 ELSE Id("Unknown"),
     branch |-> Id("Unknown"),
     description |-> Id("Depot manifest"),
     timeupdated |-> OrNull(Val(e.val).date),
     isPublic |-> TRUE,
     isHistorical |-> TRUE]

\* manifests pushed from the depot's own manifest map
DirectManifests(table, depotId) ==
    LET d == Lookup(table.entries, PropertyKey(depotId))
    IN  IF IsSome(d) /\ IsSome(Val(d)) /\ IsSome(Val(Val(d)).manifests)
        THEN LET m == Val(Val(Val(d)).manifests)
             IN  [i \in 1..Len(m) |-> DirectManifest(m[i])]
        ELSE <<>>

\* !!branch.public, for a flag that is absent, true or false
ToBoolean(flag) == IsSome(flag) /\ Val(flag)

\* variant: the depot-specific manifest is ignored
BranchManifestIdBuildOnly(branch, depotId) == Val(branch.buildid)

\* the depot-specific manifest of a branch, else its build id
BranchManifestId(branch, depotId) ==
    LET d == IF IsSome(branch.depots)
             THEN Lookup(Val(branch.depots), PropertyKey(depotId)) ELSE None
    IN  IF IsSome(d) /\ IsSome(Val(d)) /\ IsSome(Val(Val(d)).manifest)
        THEN Val(Val(Val(d)).manifest)
        ELSE Val(branch.buildid)

BranchManifest(e, depotId) ==
    [branch |-> StrV(e.key),
     buildId |-> Val(Val(e.val).buildid),
     manifestId |-> BranchManifestId(Val(e.val), depotId),
     description |-> IF IsSome(Val(e.val).description)
                     THEN Val(Val(e.val).description) ELSE StrV(<<>>),
     isPublic |-> ToBoolean(Val(e.val).public),
     timeupdated |-> OrNull(Val(e.val).timeupdated),
     isHistorical |-> FALSE]

BranchManifests(table, depotId) ==
    IF IsSome(table.branches)
    THEN LET withBuild == SelectSeq(Val(table.branches),
                              LAMBDA e : IsSome(Val(e.val).buildid))
         IN  [i \in 1..Len(withBuild) |-> BranchManifest(withBuild[i], depotId)]
    ELSE <<>>

\* a property read on null inside the try block
ManifestsThrow(table, depotId) ==
    LET d == Lookup(table.entries, PropertyKey(depotId))
    IN  \/ /\ IsSome(d) /\ IsSome(Val(d)) /\ IsSome(Val(Val(d)).manifests)
           /\ \E i \in 1..Len(Val(Val(Val(d)).manifests)) :
                  Val(Val(Val(d)).manifests)[i].val = None
        \/ /\ IsSome(table.branches)
           /\ \E i \in 1..Len(Val(table.branches)) :
                  Val(table.branches)[i].val = None

GetDepotManifests(info, appId, depotId, t) ==
    IF info.kind = "error" THEN <<>>
    ELSE IF NoProductInfo(info) \/ Val(Val(info.entry).appinfo).depots = None
    THEN <<>>
    ELSE LET table == Val(Val(Val(info.entry).appinfo).depots)
         IN  IF ManifestsThrow(table, depotId) THEN <<>>
             ELSE SortManifests(DirectManifests(table, depotId)
                                  \o BranchManifests(table, depotId)
                                  \o HistoricalManifests(t))

(***************************************************************************)
(* Inputs of the flow: what the environment can answer.                    *)
(***************************************************************************)
sSteamExe == <<"s", "t", "e", "a", "m", ".", "e", "x", "e">>
sSteamExeCaps == <<"S", "t", "e", "a", "m", ".", "e", "x", "e">>
sNoTasks == <<"I", "N", "F", "O">>

\* exec('tasklist ...') callback arguments
TasklistOutcomes ==
    {[error |-> TRUE, stdout |-> <<>>]}
        \cup {[error |-> FALSE, stdout |-> o] :
                 o \in {sSteamExe, sSteamExeCaps, sNoTasks, <<>>}}

\* items of the storefront answer
RawItems ==
    {[id |-> 10, name |-> "Counter-Strike", type |-> "app", price |-> None],
     [id |-> 413150, name |-> "Stardew Valley", type |-> "app",
      price |-> Some([final |-> 1499, discount_percent |-> 0])]}

\* answers list distinct applications
ItemLists ==
    {its \in SeqsUpTo(RawItems, MaxItems) :
        \A i, j \in 1..Len(its) : i < j => its[i].id < its[j].id}

\* axios.get outcome: a rejection, or response.data
SearchResponses ==
    {[kind |-> "error"], [kind |-> "ok", data |-> None],
     [kind |-> "ok", data |-> Some([items |-> None])]}
        \cup {[kind |-> "ok", data |-> Some([items |-> Some(its)])] :
                 its \in ItemLists}

\* item.price.final / 100 as an exact fraction
MapItem(item) ==
    [appid |-> item.id, name |-> item.name, type |-> item.type,
     price |-> IF IsSome(item.price)
               THEN [numer |-> Val(item.price).final, denom |-> 100]
               ELSE [numer |-> 0, denom |-> 1],
     discount |-> IF IsSome(item.price)
                  THEN Val(item.price).discount_percent ELSE 0]

\* the value searchGames resolves with (the request did not fail)
SearchGamesResult(resp) ==
    IF resp.data = None \/ Val(resp.data).items = None
       \/ Len(Val(Val(resp.data).items)) = 0
    THEN <<>>
    ELSE LET items == Val(Val(resp.data).items)
         IN  [i \in 1..Len(items) |-> MapItem(items[i])]

\* variant: the input is tested without trim()
ValidateTermNoTrim(input) == input # <<>>

\* CLI.getSearchTerm: the prompt's validate function accepts the input
ValidateTerm(input) == Trim(input) # <<>>

\* variant: a failed tasklist is taken for a running client
CheckSteamRunningIgnoreError(outcome) ==
    outcome.error \/ Includes(ToLowerCase(outcome.stdout), sSteamExe)

\* CLI.checkSteamRunning: the value the promise resolves with
CheckSteamRunning(outcome) ==
    IF outcome.error THEN FALSE
    ELSE Includes(ToLowerCase(outcome.stdout), sSteamExe)

NowValues == {1767225600}

(***************************************************************************)
(* Product information the remote client can deliver.                      *)
(***************************************************************************)
MaxDepotEntries == 2
MaxDirect == 2
MaxBranches == 2

sLinuxContent == <<"L", "i", "n", "u", "x", " ", "c">>
sStardew == <<"S", "t", "a", "r", "d", "e", "w">>

DepotObject(name, config, manifestMap) ==
    [name |-> name, config |-> config, maxsize |-> None,
     manifests |-> manifestMap]

PlainDepot == DepotObject(None, None, None)
LinuxDepot == DepotObject(Some(sLinuxContent), None, None)
WindowsDepot ==
    DepotObject(None,
                Some([oslist |-> Some(StrV(sWindows)), language |-> None]),
                None)

DepotKeys ==
    {<<"7">>, <<"1", "0">>, <<"1", "2", "a">>, <<"0">>, <<"-", "1">>, <<"x">>,
     sBranches}
DepotVals == {None, Some(PlainDepot), Some(LinuxDepot), Some(WindowsDepot)}

\* keys that are array indices come first, ascending, in own-key order
IsArrayIndex(key) ==
    /\ key # <<>>
    /\ \A i \in 1..Len(key) : key[i] \in Digits
    /\ (Len(key) > 1 => key[1] # "0")

DistinctKeys(entries) ==
    \A i, j \in 1..Len(entries) : i # j => entries[i].key # entries[j].key

OwnKeyOrder(entries) ==
    /\ DistinctKeys(entries)
    /\ \A i, j \in 1..Len(entries) :
           (i < j /\ IsArrayIndex(entries[j].key)) =>
               /\ IsArrayIndex(entries[i].key)
               /\ Val(ParseInt(entries[i].key)) < Val(ParseInt(entries[j].key))

EntrySeqs(keys, vals, n) ==
    {e \in SeqsUpTo([key : keys, val : vals], n) : OwnKeyOrder(e)}

InfoError == [kind |-> "error"]
InfoNoEntry == [kind |-> "entry", entry |-> None]
InfoNoAppinfo == [kind |-> "entry", entry |-> Some([appinfo |-> None])]
InfoApp(commonName, depotsOpt) ==
    [kind |-> "entry",
     entry |-> Some([appinfo |->
                  Some([commonName |-> commonName, depots |-> depotsOpt])])]
Table(entries, branches) == [entries |-> entries, branches |-> branches]

\* inputs of getGameDepots
DepotInfos ==
    {InfoError, InfoNoEntry, InfoNoAppinfo}
        \cup {InfoApp(n, None) : n \in {None, Some(sStardew)}}
        \cup {InfoApp(Some(sStardew), Some(Table(e, b))) :
                 e \in EntrySeqs(DepotKeys, DepotVals, MaxDepotEntries),
                 b \in {None, Some(<<>>)}}

\* inputs of getDepotManifests
ManifestKeys == {<<"7777777777777777777">>, <<"8888888888888888888">>,
                 <<"9999999999999999999">>}
ManifestDetails ==
    {Some([buildid |-> None, date |-> None]),
     Some([buildid |-> Some(Id("8071262")), date |-> Some(100)]),
     Some([buildid |-> None, date |-> Some(300)])}

BranchObject(buildid, depotsOpt, timeupdated) ==
    [buildid |-> buildid, depots |-> depotsOpt, description |-> None,
     public |-> Some(TRUE), timeupdated |-> timeupdated]

BranchNames == {<<"p", "u", "b">>, <<"b", "e", "t", "a">>, <<"o", "l", "d">>}
BranchVals ==
    {Some(BranchObject(None, None, None)),
     Some(BranchObject(Some(Id("8071262")), None, None)),
     Some(BranchObject(Some(Id("8071262")), None, Some(200))),
     Some(BranchObject(Some(Id("8071263")),
                       Some(<<[key |-> <<"7">>,
                               val |-> Some([manifest |->
                                   Some(Id("8881193748180768755"))])]>>),
                       Some(400)))}

ManifestInfos ==
    {InfoError, InfoNoEntry, InfoNoAppinfo, InfoApp(None, None)}
        \cup {InfoApp(None,
                  Some(Table(<<[key |-> <<"7">>,
                               val |-> Some(DepotObject(None, None, m))]>>,
                             b))) :
                 m \in {None} \cup {Some(x) :
                          x \in EntrySeqs(ManifestKeys, ManifestDetails,
                                          MaxDirect)},
                 b \in {None} \cup {Some(x) :
                          x \in EntrySeqs(BranchNames, BranchVals,
                                          MaxBranches)}}

\* the answers drawn in the interactive flow
FlowInfos ==
    {InfoError, InfoNoEntry, InfoNoAppinfo, InfoApp(Some(sStardew), None),
     InfoApp(None, Some(Table(<<[key |-> <<"x">>, val |-> None]>>, None))),
     InfoApp(None, Some(Table(<<[key |-> <<"7">>, val |-> Some(LinuxDepot)]>>,
                              None))),
     InfoApp(None,
         Some(Table(<<[key |-> <<"7">>,
                       val |-> Some(DepotObject(None, None,
                           Some(<<[key |-> <<"7777777777777777777">>,
                                   val |-> Some([buildid |-> None,
                                                 date |-> Some(100)])]>>)))]>>,
                    Some(<<[key |-> <<"p", "u", "b">>,
                            val |-> Some(BranchObject(Some(Id("8071262")),
                                                      None, None))]>>))))}

(***************************************************************************)
(* The interactive flow, SteamSearchApp.start().                           *)
(***************************************************************************)
Init ==
    /\ pc = "idle"
    /\ log = <<>>
    /\ exited = FALSE
    /\ exitCode = 0
    /\ errorCaught = FALSE
    /\ listeners = {}
    /\ loginPromise = "none"
    /\ invalidCount = 0
    /\ searchTerm = None
    /\ games = <<>>
    /\ selectedGame = None
    /\ productInfo = None
    /\ depots = <<>>
    /\ selectedDepot = None
    /\ manifests = <<>>
    /\ selectedManifest = None
    /\ current = [appId |-> None, depotId |-> None, manifestId |-> None]
    /\ shown = <<>>
    /\ pendingExec = "none"
    /\ clipboardSuccess = FALSE
    /\ now \in NowValues

flowData == <<invalidCount, searchTerm, games, selectedGame, productInfo,
              depots, selectedDepot, manifests, selectedManifest, current,
              shown, pendingExec, clipboardSuccess, now>>

\* SteamClient.logout(), as an event appended to the history l; in the flow
\* client.logOff() returns (SpecLogout has its other outcome)
Logout(l) == Append(l, "logout")

\* variant: the catch block exits without logging out
CatchBlockNoLogout(l) ==
    /\ log' = Append(Append(l, "errorReported"), "exit1")
    /\ errorCaught' = TRUE
    /\ exited' = TRUE
    /\ exitCode' = 1
    /\ pc' = "exited"

\* variant: the catch block exits with code 0
CatchBlockExitZero(l) ==
    /\ log' = Append(Logout(Append(l, "errorReported")), "exit0")
    /\ errorCaught' = TRUE
    /\ exited' = TRUE
    /\ exitCode' = 0
    /\ pc' = "exited"

\* the catch block of start(): report, logout, process.exit(1)
CatchBlock(l) ==
    /\ log' = Append(Logout(Append(l, "errorReported")), "exit1")
    /\ errorCaught' = TRUE
    /\ exited' = TRUE
    /\ exitCode' = 1
    /\ pc' = "exited"

\* `${v}` in a template literal
ToText(v) == IF IsNum(v) THEN NumToString(v.num) ELSE v.str

sDownloadDepot == <<"download_depot">>

\* variant: the application id and the depot id change places
SteamCommandSwapped(appId, depotId, manifestId) ==
    sDownloadDepot \o <<" ">> \o ToText(depotId) \o <<" ">>
        \o ToText(appId) \o <<" ">> \o ToText(manifestId)

\* `download_depot ${currentAppId} ${currentDepotId} ${currentManifestId}`
SteamCommand(appId, depotId, manifestId) ==
    sDownloadDepot \o <<" ">> \o ToText(appId) \o <<" ">>
        \o ToText(depotId) \o <<" ">> \o ToText(manifestId)

\* variant: the tail of start() prints the completion without logging out
CompletionNoLogout(l, cur, printed) ==
    /\ log' = Append(l, "completion")
    /\ shown' = printed
    /\ pc' = "completed"
    /\ UNCHANGED <<errorCaught, exited, exitCode>>

\* the tail of start(): logout, then CLI.displayCompletion
Completion(l, cur, printed) ==
    /\ log' = Append(Logout(l), "completion")
    /\ shown' = IF IsSome(cur.appId) /\ IsSome(cur.depotId)
                    /\ IsSome(cur.manifestId)
                THEN Append(printed, SteamCommand(Val(cur.appId),
                                                  Val(cur.depotId),
                                                  Val(cur.manifestId)))
                ELSE printed
    /\ pc' = "completed"
    /\ UNCHANGED <<errorCaught, exited, exitCode>>

\* variant: login() is not awaited
StartNoAwait ==
    /\ pc = "idle"
    /\ pc' = "check_steam"
    /\ log' = log \o <<"logOn", "checkSteam">>
    /\ listeners' = {"loggedOn", "error"}
    /\ loginPromise' = "pending"
    /\ UNCHANGED <<exited, exitCode, errorCaught, flowData>>

\* run() -> parseArguments -> start() -> login(): logOn, two once-listeners
Start ==
    /\ pc = "idle"
    /\ pc' = "login"
    /\ log' = Append(log, "logOn")
    /\ listeners' = {"loggedOn", "error"}
    /\ loginPromise' = "pending"
    /\ UNCHANGED <<exited, exitCode, errorCaught, flowData>>

\* 'loggedOn' is emitted: resolve(); start() goes on into getSearchTerm,
\* which starts the tasklist child process
LoggedOnEvent ==
    /\ ~exited
    /\ "loggedOn" \in listeners
    /\ listeners' = listeners \ {"loggedOn"}
    /\ IF loginPromise = "pending"
       THEN /\ loginPromise' = "resolved"
            /\ log' = log \o <<"loggedOn", "checkSteam">>
            /\ pc' = "check_steam"
       ELSE /\ log' = Append(log, "lateLoggedOn")
            /\ UNCHANGED <<loginPromise, pc>>
    /\ UNCHANGED <<exited, exitCode, errorCaught, flowData>>

\* variant: every 'error' event fails the run
ErrorEventAlwaysFatal ==
    /\ ~exited
    /\ "error" \in listeners
    /\ listeners' = listeners \ {"error"}
    /\ loginPromise' = "rejected"
    /\ CatchBlock(Append(log, IF loginPromise = "pending"
                              THEN "loginRejected" ELSE "lateErrorEvent"))
    /\ UNCHANGED flowData

\* 'error' is emitted: reject(err); a pending login fails into the catch
ErrorEvent ==
    /\ ~exited
    /\ "error" \in listeners
    /\ listeners' = listeners \ {"error"}
    /\ IF loginPromise = "pending"
       THEN /\ loginPromise' = "rejected"
            /\ CatchBlock(Append(log, "loginRejected"))
       ELSE /\ log' = Append(log, "lateErrorEvent")
            /\ UNCHANGED <<loginPromise, pc, exited, exitCode, errorCaught>>
    /\ UNCHANGED flowData

\* the tasklist callback: getSearchTerm throws or shows the prompt
SteamChecked ==
    /\ ~exited
    /\ pc = "check_steam"
    /\ \E outcome \in TasklistOutcomes :
          LET printed == IF outcome.error THEN Append(log, "checkError")
                         ELSE IF ~CheckSteamRunning(outcome)
                         THEN Append(log, "notRunning")
                         ELSE log
          IN  IF CheckSteamRunning(outcome)
              THEN /\ log' = Append(printed, "promptTerm")
                   /\ pc' = "prompt_term"
                   /\ UNCHANGED <<exited, exitCode, errorCaught>>
              ELSE CatchBlock(printed)
    /\ UNCHANGED <<listeners, loginPromise, flowData>>

\* the user submits a line: validate refuses it, or searchGames is called
TermEntered ==
    /\ ~exited
    /\ pc = "prompt_term"
    /\ \E input \in Terms :
          IF ValidateTerm(input)
          THEN /\ searchTerm' = Some(input)
               /\ log' = log \o <<"termEntered", "searchRequest">>
               /\ pc' = "searching"
               /\ UNCHANGED invalidCount
          ELSE /\ invalidCount < MaxInvalid
               /\ invalidCount' = invalidCount + 1
               /\ log' = Append(log, "validationError")
               /\ UNCHANGED <<searchTerm, pc>>
    /\ UNCHANGED <<exited, exitCode, errorCaught, listeners, loginPromise,
                   games, selectedGame, productInfo, depots, selectedDepot,
                   manifests, selectedManifest, current, shown, pendingExec,
                   clipboardSuccess, now>>

PromptStates ==
    {"prompt_term", "select_game", "select_depot", "select_manifest"}

\* inquirer.prompt rejects
PromptRejected ==
    /\ ~exited
    /\ pc \in PromptStates
    /\ CatchBlock(Append(log, "promptRejected"))
    /\ UNCHANGED <<listeners, loginPromise, flowData>>

\* axios.get settles
SearchAnswered ==
    /\ ~exited
    /\ pc = "searching"
    /\ \E resp \in SearchResponses :
          IF resp.kind = "error"
          THEN /\ CatchBlock(Append(log, "searchFailed"))
               /\ UNCHANGED games
          ELSE /\ games' = SearchGamesResult(resp)
               /\ IF Len(SearchGamesResult(resp)) = 0
                  THEN /\ log' = Append(Logout(
                                   log \o <<"searchResponse", "noGames">>),
                                   "exit0")
                       /\ exited' = TRUE
                       /\ exitCode' = 0
                       /\ pc' = "exited"
                       /\ UNCHANGED errorCaught
                  ELSE /\ log' = log \o <<"searchResponse",
                                          "selectGamePrompt">>
                       /\ pc' = "select_game"
                       /\ UNCHANGED <<exited, exitCode, errorCaught>>
    /\ UNCHANGED <<listeners, loginPromise, invalidCount, searchTerm,
                   selectedGame, productInfo, depots, selectedDepot,
                   manifests, selectedManifest, current, shown, pendingExec,
                   clipboardSuccess, now>>

\* variant: getGameDepots is not awaited before selectDepot
GameSelectedNoAwait ==
    /\ ~exited
    /\ pc = "select_game"
    /\ \E i \in 1..Len(games) : selectedGame' = Some(games[i])
    /\ log' = log \o <<"gameSelected", "fetchDepots", "selectDepotPrompt">>
    /\ pc' = "select_depot"
    /\ UNCHANGED <<exited, exitCode, errorCaught, listeners, loginPromise,
                   invalidCount, searchTerm, games, productInfo, depots,
                   selectedDepot, manifests, selectedManifest, current, shown,
                   pendingExec, clipboardSuccess, now>>

\* the user picks an application; getGameDepots asks for product info
GameSelected ==
    /\ ~exited
    /\ pc = "select_game"
    /\ \E i \in 1..Len(games) : selectedGame' = Some(games[i])
    /\ log' = log \o <<"gameSelected", "fetchDepots">>
    /\ pc' = "fetch_depots"
    /\ UNCHANGED <<exited, exitCode, errorCaught, listeners, loginPromise,
                   invalidCount, searchTerm, games, productInfo, depots,
                   selectedDepot, manifests, selectedManifest, current, shown,
                   pendingExec, clipboardSuccess, now>>

\* the getProductInfo callback of getGameDepots; then CLI.selectDepot
DepotsFetched ==
    /\ ~exited
    /\ pc = "fetch_depots"
    /\ \E info \in FlowInfos :
          LET list == GetGameDepots(info, Val(selectedGame).appid)
          IN  /\ productInfo' = Some(info)
              /\ depots' = list
              /\ IF Len(list) = 0
                 THEN Completion(log \o <<"depotsListed", "noDepots">>,
                                 current, shown)
                 ELSE /\ log' = log \o <<"depotsListed", "selectDepotPrompt">>
                      /\ pc' = "select_depot"
                      /\ UNCHANGED <<shown, errorCaught, exited, exitCode>>
    /\ UNCHANGED <<listeners, loginPromise, invalidCount, searchTerm, games,
                   selectedGame, selectedDepot, manifests, selectedManifest,
                   current, pendingExec, clipboardSuccess, now>>

\* the user picks a depot; getDepotManifests asks for product info
DepotSelected ==
    /\ ~exited
    /\ pc = "select_depot"
    /\ \E i \in 1..Len(depots) : selectedDepot' = Some(depots[i])
    /\ log' = log \o <<"depotSelected", "fetchManifests">>
    /\ pc' = "fetch_manifests"
    /\ UNCHANGED <<exited, exitCode, errorCaught, listeners, loginPromise,
                   invalidCount, searchTerm, games, selectedGame, productInfo,
                   depots, manifests, selectedManifest, current, shown,
                   pendingExec, clipboardSuccess, now>>

\* the getProductInfo callback of getDepotManifests; then CLI.selectManifest
ManifestsFetched ==
    /\ ~exited
    /\ pc = "fetch_manifests"
    /\ \E info \in FlowInfos :
          LET list == GetDepotManifests(info, Val(selectedGame).appid,
                                        Val(selectedDepot).id, now)
          IN  /\ productInfo' = Some(info)
              /\ manifests' = list
              /\ IF Len(list) = 0
                 THEN Completion(log \o <<"manifestsListed", "noManifests">>,
                                 current, shown)
                 ELSE /\ log' = log \o <<"manifestsListed",
                                         "selectManifestPrompt">>
                      /\ pc' = "select_manifest"
                      /\ UNCHANGED <<shown, errorCaught, exited, exitCode>>
    /\ UNCHANGED <<listeners, loginPromise, invalidCount, searchTerm, games,
                   selectedGame, depots, selectedDepot, selectedManifest,
                   current, pendingExec, clipboardSuccess, now>>

\* variant: every id is taken for missing
FalsyAlways(v) == TRUE

\* `!x` on an id
Falsy(v) == IF IsNum(v) THEN v.num = 0 ELSE v.str = <<>>

\* the user picks a manifest: displayManifestDetails, generateSteamCommand
\* (which starts the clipboard child process), then the tail of start()
ManifestSelected ==
    /\ ~exited
    /\ pc = "select_manifest"
    /\ \E i \in 1..Len(manifests) :
          LET m == manifests[i]
              appId == NumV(Val(selectedGame).appid)
              depotId == Val(selectedDepot).id
              cur == [appId |-> IF Falsy(appId) THEN None ELSE Some(appId),
                      depotId |-> IF Falsy(depotId) THEN None
                                  ELSE Some(depotId),
                      manifestId |-> IF Falsy(m.manifestId) THEN None
                                     ELSE Some(m.manifestId)]
              complete == IsSome(cur.appId) /\ IsSome(cur.depotId)
                             /\ IsSome(cur.manifestId)
              command == SteamCommand(appId, depotId, m.manifestId)
          IN  /\ selectedManifest' = Some(m)
              /\ current' = cur
              /\ pendingExec' = IF complete THEN "clipboard" ELSE "none"
              /\ Completion(
                     log \o <<"manifestSelected">>
                         \o (IF complete
                             THEN <<"formatCommand", "clipboardExec">>
                             ELSE <<"missingInformation">>),
                     cur,
                     IF complete THEN Append(shown, command) ELSE shown)
    /\ UNCHANGED <<listeners, loginPromise, invalidCount, searchTerm, games,
                   selectedGame, productInfo, depots, selectedDepot,
                   manifests, clipboardSuccess, now>>

\* variant: the console is opened only after a successful copy
ClipboardDoneStopOnFailure ==
    /\ ~exited
    /\ pendingExec = "clipboard"
    /\ \E ok \in BOOLEAN :
          /\ clipboardSuccess' = ok
          /\ log' = IF ok THEN log \o <<"clipboardCopied", "consoleExec">>
                    ELSE log \o <<"clipboardFailed">>
          /\ pendingExec' = IF ok THEN "console" ELSE "none"
    /\ UNCHANGED <<pc, exited, exitCode, errorCaught, listeners, loginPromise,
                   invalidCount, searchTerm, games, selectedGame, productInfo,
                   depots, selectedDepot, manifests, selectedManifest, current,
                   shown, now>>

\* the clipboard child process ends: openSteamConsole starts the next one
ClipboardDone ==
    /\ ~exited
    /\ pendingExec = "clipboard"
    /\ \E ok \in BOOLEAN :
          /\ clipboardSuccess' = ok
          /\ log' = log \o <<IF ok THEN "clipboardCopied"
                             ELSE "clipboardFailed", "consoleExec">>
    /\ pendingExec' = "console"
    /\ UNCHANGED <<pc, exited, exitCode, errorCaught, listeners, loginPromise,
                   invalidCount, searchTerm, games, selectedGame, productInfo,
                   depots, selectedDepot, manifests, selectedManifest, current,
                   shown, now>>

\* variant: the copy is reported as done whatever its outcome
ConsoleDoneReportsCopied ==
    /\ ~exited
    /\ pendingExec = "console"
    /\ \E ok \in BOOLEAN :
          log' = log \o <<IF ok THEN "consoleOpened" ELSE "consoleFailed",
                          "reportCopied">>
    /\ pendingExec' = "none"
    /\ UNCHANGED <<pc, exited, exitCode, errorCaught, listeners, loginPromise,
                   invalidCount, searchTerm, games, selectedGame, productInfo,
                   depots, selectedDepot, manifests, selectedManifest, current,
                   shown, clipboardSuccess, now>>

\* the console-launch child process ends: the status lines are printed
ConsoleDone ==
    /\ ~exited
    /\ pendingExec = "console"
    /\ \E ok \in BOOLEAN :
          /\ log' = log \o <<IF ok THEN "consoleOpened" ELSE "consoleFailed",
                             IF clipboardSuccess THEN "reportCopied"
                             ELSE "reportNotCopied">>
          /\ shown' = IF ~clipboardSuccess
                      THEN Append(shown,
                               SteamCommand(Val(current.appId),
                                            Val(current.depotId),
                                            Val(current.manifestId)))
                      ELSE shown
    /\ pendingExec' = "none"
    /\ UNCHANGED <<pc, exited, exitCode, errorCaught, listeners, loginPromise,
                   invalidCount, searchTerm, games, selectedGame, productInfo,
                   depots, selectedDepot, manifests, selectedManifest, current,
                   clipboardSuccess, now>>

\* start() has returned and no callback is outstanding: the process ends
EventLoopDrained ==
    /\ ~exited
    /\ pc = "completed"
    /\ pendingExec = "none"
    /\ exited' = TRUE
    /\ exitCode' = 0
    /\ log' = Append(log, "processEnd")
    /\ UNCHANGED <<pc, errorCaught, listeners, loginPromise, flowData>>

Next ==
    \/ Start
    \/ LoggedOnEvent
    \/ ErrorEvent
    \/ SteamChecked
    \/ TermEntered
    \/ PromptRejected
    \/ SearchAnswered
    \/ GameSelected
    \/ DepotsFetched
    \/ DepotSelected
    \/ ManifestsFetched
    \/ ManifestSelected
    \/ ClipboardDone
    \/ ConsoleDone
    \/ EventLoopDrained

Spec == Init /\ [][Next]_vars

(***************************************************************************)
(* The flow when every external operation completes: the login handshake   *)
(* delivers 'loggedOn' or 'error', the tasklist and the HTTP request        *)
(* answer, getProductInfo calls back, and every prompt returns (a value or *)
(* a rejection; the search-term prompt after at most MaxInvalid refused    *)
(* lines).  The event loop runs a callback that is ready.                  *)
(***************************************************************************)
LoginSettles == (LoggedOnEvent \/ ErrorEvent) /\ loginPromise = "pending"

PromptReturns ==
    TermEntered \/ GameSelected \/ DepotSelected \/ ManifestSelected
        \/ PromptRejected

Fairness ==
    /\ WF_vars(Start)
    /\ WF_vars(LoginSettles)
    /\ WF_vars(SteamChecked)
    /\ WF_vars(PromptReturns)
    /\ WF_vars(SearchAnswered)
    /\ WF_vars(DepotsFetched)
    /\ WF_vars(ManifestsFetched)

SpecLive == Spec /\ Fairness

(***************************************************************************)
(* SteamClient.getGameDepots followed by CLI.selectDepot, on every product *)
(* information of DepotInfos.                                              *)
(***************************************************************************)
InitWith(at, game, depot, info) ==
    /\ pc = at
    /\ log = <<>>
    /\ exited = FALSE
    /\ exitCode = 0
    /\ errorCaught = FALSE
    /\ listeners = {}
    /\ loginPromise = "resolved"
    /\ invalidCount = 0
    /\ searchTerm = None
    /\ games = <<game>>
    /\ selectedGame = Some(game)
    /\ productInfo = Some(info)
    /\ depots = <<>>
    /\ selectedDepot = depot
    /\ manifests = <<>>
    /\ selectedManifest = None
    /\ current = [appId |-> None, depotId |-> None, manifestId |-> None]
    /\ shown = <<>>
    /\ pendingExec = "none"
    /\ clipboardSuccess = FALSE
    /\ now \in NowValues

InitDepots ==
    \E item \in RawItems, info \in DepotInfos :
        InitWith("call_getGameDepots", MapItem(item), None, info)

GetGameDepotsCall ==
    /\ pc = "call_getGameDepots"
    /\ depots' = GetGameDepots(Val(productInfo), Val(selectedGame).appid)
    /\ pc' = "call_selectDepot"
    /\ UNCHANGED <<log, exited, exitCode, errorCaught, listeners,
                   loginPromise, invalidCount, searchTerm, games,
                   selectedGame, productInfo, selectedDepot, manifests,
                   selectedManifest, current, shown, pendingExec,
                   clipboardSuccess, now>>

\* CLI.selectDepot: null for an empty list, else the prompt is shown
SelectDepotCall ==
    /\ pc = "call_selectDepot"
    /\ IF Len(depots) = 0
       THEN /\ log' = Append(log, "noDepots")
            /\ pc' = "returned_null"
       ELSE /\ log' = Append(log, "selectDepotPrompt")
            /\ pc' = "select_depot"
    /\ UNCHANGED <<exited, exitCode, errorCaught, listeners, loginPromise,
                   flowData>>

NextDepots == GetGameDepotsCall \/ SelectDepotCall

SpecDepots == InitDepots /\ [][NextDepots]_vars

(***************************************************************************)
(* SteamClient.logout at each place start() calls it, and called directly  *)
(* up to MaxLogoutCalls times in sequence, in every state of the login     *)
(* promise.  logout() is client.logOff() followed by a console.log, with   *)
(* no try/catch: it returns when logOff returns and raises what logOff     *)
(* raises.  The outcome of logOff is the environment's.                    *)
(***************************************************************************)
MaxLogoutCalls == 3

LogOffOutcomes == {"returns", "throws"}

LogoutPlaces == {"call_logout", "tail_of_start", "no_games", "catch_block"}

LogoutCalls == Len(SelectSeq(log, LAMBDA e : e \in {"logout", "logoutRaised"}))

InitLogout ==
    /\ pc \in LogoutPlaces
    /\ log = <<>>
    /\ exited = FALSE
    /\ exitCode = 0
    /\ errorCaught = FALSE
    /\ listeners = {}
    /\ loginPromise \in {"pending", "resolved", "rejected"}
    /\ invalidCount \in 0..MaxInvalid
    /\ searchTerm = None
    /\ games \in {[i \in 1..Len(l) |-> MapItem(l[i])] : l \in ItemLists}
    /\ selectedGame = None
    /\ productInfo = None
    /\ depots = <<>>
    /\ selectedDepot = None
    /\ manifests = <<>>
    /\ selectedManifest = None
    /\ current = [appId |-> None, depotId |-> None, manifestId |-> None]
    /\ shown = <<>>
    /\ pendingExec = "none"
    /\ clipboardSuccess = FALSE
    /\ now \in NowValues
    \* start() is past login at its tail and in the no-results branch, and
    \* enters the catch block with login settled
    /\ pc = "tail_of_start" => (loginPromise = "resolved" /\ games # <<>>)
    /\ pc = "no_games" => (loginPromise = "resolved" /\ games = <<>>)
    /\ pc = "catch_block" => loginPromise # "pending"
    /\ loginPromise # "resolved" => (games = <<>> /\ invalidCount = 0)

\* logout() called directly, once or again
LogoutCall ==
    /\ pc = "call_logout"
    /\ LogoutCalls < MaxLogoutCalls
    /\ \E outcome \in LogOffOutcomes :
          IF outcome = "returns"
          THEN /\ log' = Logout(log)
               /\ pc' = pc
          ELSE /\ log' = Append(log, "logoutRaised")
               /\ pc' = "raised"
    /\ UNCHANGED <<exited, exitCode, errorCaught, listeners, loginPromise,
                   flowData>>

\* the tail of start(): logout, displayCompletion; an exception is caught
LogoutInTail ==
    /\ pc = "tail_of_start"
    /\ \E outcome \in LogOffOutcomes :
          IF outcome = "returns"
          THEN /\ log' = Append(Logout(log), "completion")
               /\ pc' = "completed"
          ELSE /\ log' = Append(log, "logoutRaised")
               /\ pc' = "catch_block"
    /\ UNCHANGED <<exited, exitCode, errorCaught, listeners, loginPromise,
                   flowData>>

\* the no-results branch of start(): logout, process.exit(0)
LogoutNoGames ==
    /\ pc = "no_games"
    /\ \E outcome \in LogOffOutcomes :
          IF outcome = "returns"
          THEN /\ log' = Append(Logout(log), "exit0")
               /\ pc' = "exited"
               /\ exited' = TRUE
          ELSE /\ log' = Append(log, "logoutRaised")
               /\ pc' = "catch_block"
               /\ exited' = exited
    /\ UNCHANGED <<exitCode, errorCaught, listeners, loginPromise, flowData>>

\* the catch block of start(): report, logout, process.exit(1); an exception
\* of logout leaves start() and rejects its promise
LogoutInCatch ==
    /\ pc = "catch_block"
    /\ errorCaught' = TRUE
    /\ \E outcome \in LogOffOutcomes :
          IF outcome = "returns"
          THEN /\ log' = Append(Logout(Append(log, "errorReported")), "exit1")
               /\ pc' = "exited"
               /\ exited' = TRUE
               /\ exitCode' = 1
          ELSE /\ log' = log \o <<"errorReported", "logoutRaised">>
               /\ pc' = "start_rejected"
               /\ UNCHANGED <<exited, exitCode>>
    /\ UNCHANGED <<listeners, loginPromise, flowData>>

NextLogout == LogoutCall \/ LogoutInTail \/ LogoutNoGames \/ LogoutInCatch

SpecLogout == InitLogout /\ [][NextLogout]_vars

(***************************************************************************)
(* SteamClient.getOsType, called by getGameDepots on the one depot of the  *)
(* table, for every combination of OS list and display name.               *)
(***************************************************************************)
sSolaris == <<"s", "o", "l">>
sMacosLinux == <<"m", "a", "c", "o", "s", ",", "l", "i", "n", "u", "x">>
sWindowsCaps == <<"W", "I", "N", "D", "O", "W", "S">>
sOsxCaps == <<"O", "S", "X">>
sMacLinux == <<"M", "a", "c", " ", "l", "i", "n", "u", "x">>
sLinuxWindows == <<"l", "i", "n", "u", "x", " ", "W", "i", "n", "d", "o", "w", "s">>
sContent == <<"c", "o", "n", "t", "e", "n", "t">>

OsLists ==
    {None, Some(StrV(<<>>)), Some(StrV(sWindows)), Some(StrV(sMacosLinux)),
     Some(StrV(sLinux)), Some(StrV(sSolaris)), Some(ListV(<<>>)),
     Some(ListV(<<sWindows>>)), Some(ListV(<<sLinux, sMacos>>)),
     Some(ListV(<<sWindowsCaps>>))}

OsConfigs == {None} \cup {Some([oslist |-> o, language |-> None]) : o \in OsLists}

OsNames ==
    {None, Some(<<>>), Some(sLinuxContent), Some(sWindowsCaps), Some(sOsxCaps),
     Some(sMacLinux), Some(sLinuxWindows), Some(sContent)}

OsInfos ==
    {InfoApp(None, Some(Table(<<[key |-> <<"7">>,
                                 val |-> Some(DepotObject(n, c, None))]>>,
                              None))) :
        n \in OsNames, c \in OsConfigs}

InitOsType ==
    \E info \in OsInfos :
        InitWith("call_getGameDepots",
                 MapItem(CHOOSE item \in RawItems : item.id = 10),
                 None, info)

NextOsType == GetGameDepotsCall

SpecOsType == InitOsType /\ [][NextOsType]_vars

(***************************************************************************)
(* SteamClient.getDepotManifests on every product information of           *)
(* ManifestInfos, for a depot listed under key "7" and for the synthetic   *)
(* depot of the application.                                               *)
(***************************************************************************)
InitManifests ==
    \E info \in ManifestInfos,
       depot \in {DepotRecord(<<"7">>, PlainDepot),
                  SyntheticDepot(10, Tpl("App ", NumV(10)))} :
        InitWith("call_getDepotManifests",
                 MapItem(CHOOSE item \in RawItems : item.id = 10),
                 Some(depot), info)

GetDepotManifestsCall ==
    /\ pc = "call_getDepotManifests"
    /\ manifests' = GetDepotManifests(Val(productInfo),
                                      Val(selectedGame).appid,
                                      Val(selectedDepot).id, now)
    /\ pc' = "returned_manifests"
    /\ UNCHANGED <<log, exited, exitCode, errorCaught, listeners,
                   loginPromise, invalidCount, searchTerm, games,
                   selectedGame, productInfo, depots, selectedDepot,
                   selectedManifest, current, shown, pendingExec,
                   clipboardSuccess, now>>

NextManifests == GetDepotManifestsCall

SpecManifests == InitManifests /\ [][NextManifests]_vars

(***************************************************************************)
(* SteamClient.getDepotManifests on product information whose depot table  *)
(* declares branches of every shape (with and without a build id, a        *)
(* depot-specific manifest, a description, a public flag, a timestamp),    *)
(* the depot itself with or without one manifest of its own.               *)
(***************************************************************************)
sBetaTest == <<"b", "e", "t", "a", " ", "t", "e", "s", "t">>

BranchDetailVals ==
    BranchVals \cup
    {Some([buildid |-> Some(Id("8071264")), depots |-> None,
           description |-> Some(StrV(sBetaTest)), public |-> None,
           timeupdated |-> Some(300)]),
     Some([buildid |-> Some(Id("8071265")),
           depots |-> Some(<<[key |-> <<"1", "0">>,
                             val |-> Some([manifest |->
                                 Some(Id("1111111111111111111"))])]>>),
           description |-> None, public |-> Some(FALSE),
           timeupdated |-> None]),
     Some([buildid |-> None,
           depots |-> Some(<<[key |-> <<"7">>,
                             val |-> Some([manifest |->
                                 Some(Id("2222222222222222222"))])]>>),
           description |-> None, public |-> Some(TRUE),
           timeupdated |-> Some(500)])}

BranchInfos ==
    {InfoApp(None,
         Some(Table(<<[key |-> <<"7">>,
                       val |-> Some(DepotObject(None, None, m))]>>,
                    b))) :
        m \in {None,
               Some(<<[key |-> <<"7777777777777777777">>,
                       val |-> Some([buildid |-> None, date |-> Some(100)])]>>)},
        b \in {None} \cup {Some(x) :
                 x \in EntrySeqs(BranchNames, BranchDetailVals, MaxBranches)}}

InitBranches ==
    \E info \in BranchInfos,
       depot \in {DepotRecord(<<"7">>, PlainDepot),
                  SyntheticDepot(10, Tpl("App ", NumV(10)))} :
        InitWith("call_getDepotManifests",
                 MapItem(CHOOSE item \in RawItems : item.id = 10),
                 Some(depot), info)

NextBranches == GetDepotManifestsCall

SpecBranches == InitBranches /\ [][NextBranches]_vars

(***************************************************************************)
(* Properties.                                                             *)
(***************************************************************************)
Has(e) == \E i \in 1..Len(log) : log[i] = e
Before(a, b) ==
    \E i \in 1..Len(log) :
        log[i] = a /\ \E j \in (i + 1)..Len(log) : log[j] = b
Count(e) == Cardinality({i \in 1..Len(log) : log[i] = e})
Last(l) == l[Len(l)]

FailureEvents ==
    {"loginRejected", "checkError", "notRunning", "promptRejected",
     "searchFailed"}

\* C1: whenever a step of start() fails (login error event, Steam not
\* running, search failure, rejected prompt), the process ends with exit
\* code 1 and logout() was called before the exit; no exit with code 1
\* happens without a preceding logout.
C1_LogoutBeforeFatalExit ==
    /\ (exited /\ exitCode = 1) => Before("logout", "exit1")
    /\ \A j \in 1..Len(log) :
           log[j] = "exit1" => (j > 1 /\ log[j - 1] = "logout")
    /\ \A e \in FailureEvents :
           Has(e) => (exited /\ exitCode = 1 /\ Before(e, "logout")
                        /\ Before("logout", "exit1"))

C1_Witness ==
    /\ Has("searchFailed")
    /\ exited /\ exitCode = 1
    /\ Before("logout", "exit1")

(***************************************************************************)
(* The steps of one run, in the order of start(): each has an event that   *)
(* starts it and the events that complete it.                              *)
(***************************************************************************)
StepStarts ==
    <<"logOn", "promptTerm", "searchRequest", "selectGamePrompt",
      "fetchDepots", "selectDepotPrompt", "fetchManifests",
      "selectManifestPrompt", "formatCommand", "logout">>

StepEnds ==
    << {"loggedOn", "loginRejected"},
       {"termEntered", "promptRejected"},
       {"searchResponse", "searchFailed"},
       {"gameSelected", "promptRejected"},
       {"depotsListed"},
       {"depotSelected", "promptRejected"},
       {"manifestsListed"},
       {"manifestSelected", "promptRejected"},
       {"clipboardExec"},
       {"completion", "exit0", "exit1"} >>

StartEvents == {StepStarts[k] : k \in 1..Len(StepStarts)}
StepOf == [e \in StartEvents |->
              CHOOSE k \in 1..Len(StepStarts) : StepStarts[k] = e]

\* C2: the steps happen in the strict linear order login, search-term
\* prompt, search, application selection, depot listing, depot selection,
\* manifest listing, manifest selection, command formatting,
\* logout/completion: a step starts only after every step started earlier
\* has completed, and every step started earlier is an earlier step of the
\* order (so none runs twice and none is re-entered).
C2_StrictLinearOrder ==
    \A j \in 1..Len(log) :
        log[j] \in StartEvents =>
            \A i \in 1..(j - 1) :
                log[i] \in StartEvents =>
                    /\ StepOf[log[i]] < StepOf[log[j]]
                    /\ \E k \in (i + 1)..(j - 1) :
                           log[k] \in StepEnds[StepOf[log[i]]]

C2_Witness ==
    /\ Has("formatCommand")
    /\ Has("completion")
    /\ \A k \in 1..Len(StepStarts) : Has(StepStarts[k])

\* C3: a terminated process has exit code 0 exactly when the run completed
\* normally or the search returned no results (then logout was called and
\* the application-selection prompt never shown), and exit code 1 exactly
\* when an error was caught; every failure ends with exit code 1.
C3_ExitCodes ==
    /\ exited => exitCode \in {0, 1}
    /\ exited => ((exitCode = 0) <=> (Has("completion") \/ Has("noGames")))
    /\ exited => ((exitCode = 1) <=> errorCaught)
    /\ errorCaught => (exited /\ exitCode = 1)
    /\ Has("noGames") =>
           /\ exited /\ exitCode = 0
           /\ Before("noGames", "logout")
           /\ Before("logout", "exit0")
           /\ ~Has("selectGamePrompt")
    /\ \A e \in FailureEvents : Has(e) => (errorCaught /\ exitCode = 1)

C3_Witness ==
    /\ Has("noGames")
    /\ exited /\ exitCode = 0
    /\ ~errorCaught

SideEffectCallbacks ==
    {"clipboardCopied", "clipboardFailed", "consoleOpened", "consoleFailed"}

\* C4: when a manifest has been selected, logout and the completion message
\* come only after command formatting and both side effects, callbacks
\* included, have completed; no side-effect callback runs after
\* logout/completion.
C4_DoneAfterSideEffects ==
    /\ (IsSome(selectedManifest) /\ Has("formatCommand") /\ Has("logout"))
           => pendingExec = "none"
    /\ \A e \in SideEffectCallbacks :
           ~Before("logout", e) /\ ~Before("completion", e)

LaterSteps ==
    {"checkSteam", "promptTerm", "searchRequest", "fetchDepots",
     "fetchManifests"}

\* C5: login() suspends the flow until the first of 'loggedOn' and 'error':
\* no later step (Steam-running check, search prompt, search request,
\* product-info fetch) begins before 'loggedOn' was received, and when
\* 'error' arrives first login fails and none of them is ever executed.
C5_LoginSuspendsFlow ==
    /\ \A e \in LaterSteps :
           \A j \in 1..Len(log) :
               log[j] = e => \E i \in 1..(j - 1) : log[i] = "loggedOn"
    /\ loginPromise \in {"none", "pending", "rejected"} =>
           \A e \in LaterSteps : ~Has(e)
    /\ loginPromise = "rejected" <=> Has("loginRejected")
    /\ Has("loginRejected") => (errorCaught /\ exited /\ ~Has("loggedOn"))

C5_Witness ==
    /\ Has("loginRejected")
    /\ exited
    /\ \A e \in LaterSteps : ~Has(e)

\* C6: the Steam-running check precedes the search-term prompt; when it
\* reports that Steam is not running, or the check command errors, the
\* prompt is never shown, no search request is issued, and the run fails
\* with a reported error and exit code 1.
C6_SteamCheckBeforePrompt ==
    /\ Has("promptTerm") =>
           /\ Before("checkSteam", "promptTerm")
           /\ ~Has("notRunning") /\ ~Has("checkError")
    /\ (Has("notRunning") \/ Has("checkError")) =>
           /\ ~Has("promptTerm")
           /\ ~Has("searchRequest")
           /\ Has("errorReported")
           /\ exited /\ exitCode = 1

C6_Witness ==
    /\ Has("checkError")
    /\ exited /\ exitCode = 1
    /\ ~Has("promptTerm")

InfoGiven == Val(productInfo)
AppIdGiven == Val(selectedGame).appid

HasAppinfo(info) ==
    info.kind = "entry" /\ IsSome(info.entry)
        /\ IsSome(Val(info.entry).appinfo)

\* the keys of the depot table that parse as a number
NumericKeys(info) ==
    IF HasAppinfo(info) /\ IsSome(Val(Val(info.entry).appinfo).depots)
    THEN LET e == Val(Val(Val(info.entry).appinfo).depots).entries
         IN  {i \in 1..Len(e) : e[i].key # sBranches
                                    /\ ParseInt(e[i].key) # None}
    ELSE {}

IsSyntheticFor(list, appId) ==
    /\ Len(list) = 1
    /\ list[1].id = NumV(appId)
    /\ list[1].osType = OsUnknown

C8_WitnessSynthetic ==
    /\ pc = "select_depot"
    /\ HasAppinfo(InfoGiven)
    /\ IsSome(Val(Val(InfoGiven.entry).appinfo).depots)
    /\ Len(Val(Val(Val(InfoGiven.entry).appinfo).depots).entries) > 0
    /\ NumericKeys(InfoGiven) = {}
    /\ IsSyntheticFor(depots, AppIdGiven)

(***************************************************************************)
(* The flow right after the product information for the depot list came.   *)
(***************************************************************************)
DepotInfoIs(info) ==
    /\ Has("depotsListed")
    /\ ~Has("fetchManifests")
    /\ productInfo = Some(info)

C10_TimestampedDescending ==
    pc = "returned_manifests" =>
        \A i, j \in 1..Len(manifests) :
            (i < j /\ Truthy(manifests[i].timeupdated)
                   /\ Truthy(manifests[j].timeupdated)) =>
                Val(manifests[i].timeupdated) >= Val(manifests[j].timeupdated)

(***************************************************************************)
(* getDepotManifests: what the product information it was given declares   *)
(* for the selected depot, in the order the entries are pushed.            *)
(***************************************************************************)
DepotIdGiven == Val(selectedDepot).id

HasDepotTable(info) ==
    HasAppinfo(info) /\ IsSome(Val(Val(info.entry).appinfo).depots)

TableGiven == Val(Val(Val(InfoGiven.entry).appinfo).depots)

Range(s) == {s[i] : i \in 1..Len(s)}

\* the manifests of the product's own depot and branch data
ProductManifests ==
    IF HasDepotTable(InfoGiven) /\ ~ManifestsThrow(TableGiven, DepotIdGiven)
    THEN DirectManifests(TableGiven, DepotIdGiven)
             \o BranchManifests(TableGiven, DepotIdGiven)
    ELSE <<>>

PushedManifests == ProductManifests \o HistoricalManifests(now)

PositionIn(s, x) == CHOOSE k \in 1..Len(s) : s[k] = x

\* C11: in the result of getDepotManifests every manifest with a timestamp
\* comes before every manifest without one, whichever of them is
\* historical; of two manifests without a timestamp a non-historical one
\* comes before a historical one, and otherwise they keep the order in which
\* they were pushed.
C11_TimestampedFirst ==
    pc = "returned_manifests" =>
        \A i, j \in 1..Len(manifests) :
            i < j =>
                /\ IsSome(manifests[j].timeupdated) =>
                       IsSome(manifests[i].timeupdated)
                /\ (manifests[i].timeupdated = None
                        /\ manifests[j].timeupdated = None) =>
                       /\ manifests[j].isHistorical \/ ~manifests[i].isHistorical
                       /\ manifests[i].isHistorical = manifests[j].isHistorical
                              => PositionIn(PushedManifests, manifests[i])
                                     < PositionIn(PushedManifests, manifests[j])

\* C12: getDepotManifests returns the empty sequence whenever the product
\* declares no manifest data for the depot (no manifest map of the depot, no
\* branch with a build id), and every manifest of the result comes from the
\* product's own depot or branch data.
C12_OnlyProductManifests ==
    pc = "returned_manifests" =>
        /\ ProductManifests = <<>> => manifests = <<>>
        /\ Range(manifests) \subseteq Range(ProductManifests)

(***************************************************************************)
(* The command of the run, written out from the selections themselves.     *)
(***************************************************************************)
IdText(v) == IF DOMAIN v = {"num"} THEN NumToString(v.num) ELSE v.str

ExpectedCommand ==
    <<"download_depot", " ">>
        \o NumToString(Val(selectedGame).appid) \o <<" ">>
        \o IdText(Val(selectedDepot).id) \o <<" ">>
        \o IdText(Val(selectedManifest).manifestId)

\* C13: every command that is shown is the line
\* 'download_depot <appId> <depotId> <manifestId>' made of the id of the
\* selected application, the id of the selected depot and the manifestId of
\* the selected manifest; once the command was formatted and the completion
\* message printed, generateSteamCommand and displayCompletion have each
\* shown it, and it is the same string.
C13_CommandOfSelection ==
    /\ \A i \in 1..Len(shown) :
           /\ IsSome(selectedGame) /\ IsSome(selectedDepot)
           /\ IsSome(selectedManifest)
           /\ shown[i] = ExpectedCommand
    /\ Has("formatCommand") => Len(shown) >= 1
    /\ (Has("formatCommand") /\ Has("completion")) =>
           /\ Len(shown) >= 2
           /\ shown[1] = shown[2]

C13_Witness ==
    /\ Has("formatCommand") /\ Has("completion")
    /\ Len(shown) >= 2
    /\ Val(selectedDepot).id # NumV(Val(selectedGame).appid)
    /\ ~Val(selectedManifest).isHistorical

SideEffectFailures == {"clipboardFailed", "consoleFailed"}

\* C14: a failed clipboard copy or console launch is never fatal: in each of
\* the four success/failure combinations no error is caught and the exit
\* code is not 1, the other side effect is attempted all the same (the
\* console launch follows a failed copy, a failed launch was preceded by the
\* copy attempt), and whenever one of them failed the command line has been
\* printed; after a failed copy the console callback prints it once more.
C14_SideEffectFailureNotFatal ==
    (\E e \in SideEffectFailures : Has(e)) =>
        /\ ~errorCaught
        /\ ~Has("exit1") /\ ~Has("errorReported")
        /\ exited => exitCode = 0
        /\ Has("clipboardExec")
        /\ Has("clipboardFailed") => Before("clipboardFailed", "consoleExec")
        /\ Has("consoleFailed") =>
               /\ Before("clipboardExec", "consoleFailed")
               /\ Has("clipboardCopied") \/ Has("clipboardFailed")
        /\ \E i \in 1..Len(shown) : shown[i] = ExpectedCommand
        /\ Has("reportNotCopied") => Len(shown) >= 3

C14_Witness ==
    /\ Has("clipboardFailed") /\ Has("consoleFailed")
    /\ exited /\ exitCode = 0

C14_WitnessCopyOnly ==
    /\ Has("clipboardFailed") /\ Has("consoleOpened")
    /\ exited /\ exitCode = 0

C14_WitnessLaunchOnly ==
    /\ Has("clipboardCopied") /\ Has("consoleFailed")
    /\ exited /\ exitCode = 0

(***************************************************************************)
(* getOsType: the depot object it was given, read from the depot table.    *)
(***************************************************************************)
DepotGiven == Val(TableGiven.entries[1].val)

OsListGiven ==
    IF IsSome(DepotGiven.config) THEN Val(DepotGiven.config).oslist ELSE None

\* an OS list is present: a non-empty string or any array
OsListPresent ==
    /\ OsListGiven # None
    /\ Val(OsListGiven) # [str |-> <<>>]

Contains(text, word) ==
    \E i \in 0..(Len(text) - Len(word)) :
        \A k \in 1..Len(word) : text[i + k] = word[k]

\* the OS list contains the word: as an element of the array, or as a part
\* of the string
OsListHas(word) ==
    IF "list" \in DOMAIN Val(OsListGiven)
    THEN word \in Range(Val(OsListGiven).list)
    ELSE Contains(Val(OsListGiven).str, word)

NameHas(word) ==
    /\ DepotGiven.name # None
    /\ Contains(ToLowerCase(Val(DepotGiven.name)), word)

C15_WitnessExamples ==
    /\ pc = "call_selectDepot"
    /\ OsListGiven = <<[list |-> <<<<"w", "i", "n", "d", "o", "w", "s">>>>]>>
    /\ depots[1].osType = [os |-> "Windows"]

\* C16: logout() never raises, called once or twice in sequence, whatever
\* the state of the session (login not completed, logged in, already logged
\* out, logOff failing); so the catch block of start() always reaches
\* process.exit(1) after its logout call.
C16_LogoutNeverRaises ==
    /\ ~Has("logoutRaised")
    /\ pc \notin {"raised", "start_rejected"}
    /\ Has("errorReported") => Before("logout", "exit1")

SideEffectStarts == {"clipboardExec", "consoleExec"}

\* C17: a command is formatted, and the clipboard and console side effects
\* are started, if and only if a manifest was selected in this run; with an
\* empty depot list the manifest fetch is skipped, and with an empty depot
\* list or an empty manifest list the flow still reaches logout and then the
\* completion message, no command formatted or shown and no side effect
\* attempted.
C17_CommandOnlyForSelectedManifest ==
    /\ Has("formatCommand") <=> Has("manifestSelected")
    /\ Has("clipboardExec") <=> Has("manifestSelected")
    /\ Has("consoleExec") => Has("manifestSelected")
    /\ Has("manifestSelected") <=> IsSome(selectedManifest)
    /\ shown # <<>> => IsSome(selectedManifest)
    /\ Has("noDepots") =>
           /\ depots = <<>>
           /\ ~Has("selectDepotPrompt") /\ ~Has("fetchManifests")
    /\ Has("noManifests") =>
           /\ manifests = <<>>
           /\ ~Has("selectManifestPrompt")
    /\ (Has("noDepots") \/ Has("noManifests")) =>
           /\ Before("logout", "completion")
           /\ ~errorCaught /\ (exited => exitCode = 0)
           /\ ~Has("formatCommand") /\ shown = <<>>
           /\ \A e \in SideEffectStarts : ~Has(e)
           /\ pendingExec = "none"

C17_Witness ==
    /\ Has("noManifests")
    /\ IsSome(selectedDepot)
    /\ exited /\ exitCode = 0

C17_WitnessNoDepots ==
    /\ Has("noDepots")
    /\ exited /\ exitCode = 0

C17_WitnessCommand ==
    /\ Has("manifestSelected") /\ Has("consoleExec")
    /\ exited

\* C18: a malformed entry never aborts the extraction of getGameDepots: for
\* a depot table in which some numeric-keyed entries are malformed (null)
\* and others are well formed, the result still has one Depot for every
\* well-formed numeric-keyed entry.
C18_MalformedEntryNotFatal ==
    (pc = "call_selectDepot" /\ HasDepotTable(InfoGiven)) =>
        \A i \in NumericKeys(InfoGiven) :
            TableGiven.entries[i].val # None =>
                Cardinality({k \in 1..Len(depots) :
                    depots[k].id = [str |-> TableGiven.entries[i].key]}) = 1

\* a key that is the decimal numeral of a positive integer
IsPositiveIntegerKey(key) ==
    /\ key # <<>>
    /\ \A i \in 1..Len(key) :
           key[i] \in {"0", "1", "2", "3", "4", "5", "6", "7", "8", "9"}
    /\ \E i \in 1..Len(key) : key[i] # "0"

\* C19: getGameDepots emits a Depot for a key of the depot table if and only
\* if the key is a valid positive integer id: the reserved key 'branches'
\* and every key that is non-numeric, zero, negative, or a numeric prefix
\* followed by other characters is skipped.  (Tables without a null entry,
\* so that the loop runs to its end.)
C19_OnlyPositiveIntegerKeys ==
    (/\ pc = "call_selectDepot"
     /\ HasDepotTable(InfoGiven)
     /\ \A i \in 1..Len(TableGiven.entries) :
            TableGiven.entries[i].val # None) =>
        \A i \in 1..Len(TableGiven.entries) :
            (\E k \in 1..Len(depots) :
                 depots[k].id = [str |-> TableGiven.entries[i].key])
                <=> IsPositiveIntegerKey(TableGiven.entries[i].key)

(***************************************************************************)
(* The branches the product declares, read from the depot table.           *)
(***************************************************************************)
BranchesGiven ==
    IF TableGiven.branches = None THEN <<>> ELSE Val(TableGiven.branches)

CurrentManifests == SelectSeq(manifests, LAMBDA m : ~m.isHistorical)

\* the manifest of branch object b overriding its build id for the depot
OverrideFor(b) ==
    IF b.depots = None THEN None
    ELSE LET hits == {i \in 1..Len(Val(b.depots)) :
                         /\ Val(b.depots)[i].key = IdText(DepotIdGiven)
                         /\ Val(b.depots)[i].val # None}
         IN  IF hits = {} THEN None
             ELSE Val((Val(b.depots)[CHOOSE i \in hits : TRUE]).val).manifest

\* C20: getDepotManifests emits exactly one current manifest (isHistorical
\* false) for every branch of the product that carries a build id and none
\* for a branch without one; its manifestId is the branch's manifest for the
\* selected depot when there is one and the build id otherwise, and it
\* carries the branch's name, build id, public flag, description and
\* last-updated timestamp.
C20_OneManifestPerBuiltBranch ==
    pc = "returned_manifests" =>
        /\ Len(CurrentManifests)
               = Cardinality({i \in 1..Len(BranchesGiven) :
                                  Val(BranchesGiven[i].val).buildid # None})
        /\ \A i \in 1..Len(BranchesGiven) :
               LET b == Val(BranchesGiven[i].val)
                   mine == {k \in 1..Len(CurrentManifests) :
                               CurrentManifests[k].branch
                                   = [str |-> BranchesGiven[i].key]}
               IN  IF b.buildid = None THEN mine = {}
                   ELSE /\ Cardinality(mine) = 1
                        /\ \A k \in mine :
                             /\ CurrentManifests[k].buildId = Val(b.buildid)
                             /\ CurrentManifests[k].manifestId
                                    = IF OverrideFor(b) # None
                                      THEN Val(OverrideFor(b))
                                      ELSE Val(b.buildid)
                             /\ CurrentManifests[k].isPublic
                                    = (b.public = <<TRUE>>)
                             /\ CurrentManifests[k].description
                                    = IF b.description = None
                                      THEN [str |-> <<>>]
                                      ELSE Val(b.description)
                             /\ CurrentManifests[k].timeupdated = b.timeupdated

C20_Witness ==
    /\ pc = "returned_manifests"
    /\ Len(BranchesGiven) = 2
    /\ Len(CurrentManifests) = 1
    /\ CurrentManifests[1].manifestId # CurrentManifests[1].buildId
    /\ ~CurrentManifests[1].isPublic

\* C21: the list getDepotManifests returns is deduplicated: no two of its
\* elements have the same manifestId, whether the id comes from the depot's
\* own manifest map, from one or more branches, or from the previously
\* observed group.
C21_NoDuplicateManifestIds ==
    pc = "returned_manifests" =>
        \A i, j \in 1..Len(manifests) :
            i # j => manifests[i].manifestId # manifests[j].manifestId

ClipboardResults == {"clipboardCopied", "clipboardFailed"}

\* C22: for a formatted command the console launch is attempted exactly
\* once, and only after the clipboard attempt has completed, whatever its
\* result: the launch follows the clipboard result immediately, a run that
\* formatted a command ends with exactly one launch made, and the clipboard
\* status reported to the user is the actual outcome of the copy.
C22_ConsoleOnceAfterClipboard ==
    /\ Count("formatCommand") <= 1
    /\ Count("clipboardExec") = Count("formatCommand")
    /\ Count("consoleExec") <= 1
    /\ \A j \in 1..Len(log) :
           log[j] = "consoleExec" =>
               /\ j > 1 /\ log[j - 1] \in ClipboardResults
               /\ \E i \in 1..(j - 1) : log[i] = "clipboardExec"
    /\ Cardinality({j \in 1..Len(log) : log[j] \in ClipboardResults})
           = Count("consoleExec")
    /\ (exited /\ Has("formatCommand")) => Count("consoleExec") = 1
    /\ Has("reportCopied") =>
           (Has("clipboardCopied") /\ ~Has("clipboardFailed"))
    /\ Has("reportNotCopied") =>
           (Has("clipboardFailed") /\ ~Has("clipboardCopied"))
    /\ (Has("consoleOpened") \/ Has("consoleFailed")) =>
           (Has("reportCopied") \/ Has("reportNotCopied"))

C22_Witness ==
    /\ Has("clipboardFailed")
    /\ Count("consoleExec") = 1
    /\ Has("consoleOpened") /\ Has("reportNotCopied")
    /\ exited

LateEvents == {"lateErrorEvent", "lateLoggedOn"}

\* a step in which a login event arrives after login() has settled
LateEventStep == \E e \in LateEvents : log' = Append(log, e)

\* C23: the promise of login() settles exactly once, with the first of the
\* 'loggedOn' and 'error' events: once settled its outcome never changes,
\* and an event that arrives after the other one only runs its listener: it
\* calls neither logout nor process.exit and leaves the position and the
\* data of the running flow as they are.
C23_LoginSettlesOnce ==
    /\ [](/\ Count("loggedOn") + Count("loginRejected") <= 1
          /\ loginPromise = "resolved" <=> Has("loggedOn")
          /\ loginPromise = "rejected" <=> Has("loginRejected")
          /\ Has("lateErrorEvent") => Before("loggedOn", "lateErrorEvent")
          /\ Has("lateLoggedOn") => Before("loginRejected", "lateLoggedOn"))
    /\ [][/\ loginPromise \in {"resolved", "rejected"}
                 => loginPromise' = loginPromise
          /\ LateEventStep =>
                 UNCHANGED <<pc, exited, exitCode, errorCaught, loginPromise,
                             flowData>>]_vars

\* the run goes on after the late event and completes
C23_Witness ==
    /\ Before("loggedOn", "lateErrorEvent")
    /\ Before("lateErrorEvent", "searchRequest")
    /\ Has("completion")
    /\ exited /\ exitCode = 0 /\ ~errorCaught

SessionClosed ==
    /\ Has("logout")
    /\ \/ Before("logout", "exit0")
       \/ Before("logout", "exit1")
       \/ Before("logout", "completion")

\* C24: when every external operation completes, every run terminates with
\* the session closed: start() eventually calls logout() and then either
\* exits or prints the completion message; nothing in the flow keeps it
\* from getting there.
C24_EventuallySessionClosed == <>SessionClosed

C24_Witness ==
    /\ SessionClosed
    /\ Has("manifestSelected") /\ Has("completion")
    /\ exited

====
